---- MODULE Spec2Model ----
(***************************************************************************)
(* Model of taxcalc/records.py: the Records store of tax-filing units, its *)
(* constructor (_read_data, _read_blowup, _read_weights, _impute_variables)*)
(* and its public operations increment_year and extrapolate_2009_puf.      *)
(*                                                                         *)
(* float64 values are modelled as exact rationals [n, d] (d > 0, lowest    *)
(* terms); d = 0 is a non-finite value (NaN).  int64 columns keep their    *)
(* integer storage: a float result written into them is truncated.         *)
(* Division is Python 3 true division.                                     *)
(***************************************************************************)
EXTENDS Integers, Sequences, FiniteSets, TLC

VARIABLES
    data,            \* constructor argument: the input DataFrame (rows)
    money_dtype,     \* dtype of the monetary columns of the input DataFrame
    blowup_factors,  \* constructor argument: the caller's raw factor table
    weights,         \* constructor argument: the caller's weight table
    start_year,      \* constructor argument: None or an integer (or other)
    sources,         \* what the blowup_factors and weights arguments are
    pc,              \* "new" | "ready" | "failed"
    cols,            \* the store's attributes: field name -> vector
    dtypes,          \* field name -> dtype of the vector
    dim,             \* self.dim
    BF,              \* self.BF, the normalized factor table
    WT,              \* self.WT
    current_year,    \* self._current_year
    err,             \* exception raised by the last call ("none" if none)
    op,              \* name of the last call
    n_increment,     \* number of increment_year calls so far
    n_impute,        \* number of _impute_variables runs so far
    n_extrapolate,   \* number of extrapolate_2009_puf calls so far
    n_write,         \* number of direct field writes so far
    written          \* names of the fields written directly so far

vars == <<data, money_dtype, blowup_factors, weights, start_year, sources,
          pc, cols, dtypes, dim, BF, WT, current_year, err, op, n_increment,
          n_impute, n_extrapolate, n_write, written>>

-----------------------------------------------------------------------------
(* Bounds of the model *)

NumYears == 4        \* rows of the factor table
MaxIncrement == 4    \* increment_year calls explored
MaxWrite == 1        \* direct field writes explored

(* Program constants *)

PUF_YEAR == 2009
AGGREGATE_RECID == 999999

FirstYear == PUF_YEAR - 1
TableYears == FirstYear .. (FirstYear + NumYears - 1)

-----------------------------------------------------------------------------
(* float64 arithmetic, as exact rationals *)

Abs(x) == IF x < 0 THEN -x ELSE x

RECURSIVE GCD(_, _)
GCD(a, b) == IF b = 0 THEN a ELSE GCD(b, a % b)

Q(n, d) ==
    IF d = 0 THEN [n |-> 0, d |-> 0]
    ELSE LET s == IF d < 0 THEN -1 ELSE 1
             g == GCD(Abs(n), Abs(d))
         IN  [n |-> (s * n) \div g, d |-> (s * d) \div g]

R(k) == [n |-> k, d |-> 1]
NaN == [n |-> 0, d |-> 0]
IsFinite(a) == a.d # 0

\* the product is formed after cancelling across the two fractions
RMul(a, b) ==
    IF IsFinite(a) /\ IsFinite(b)
    THEN LET g1 == GCD(Abs(a.n), b.d)
             g2 == GCD(Abs(b.n), a.d)
         IN  [n |-> (a.n \div g1) * (b.n \div g2),
              d |-> (a.d \div g2) * (b.d \div g1)]
    ELSE NaN
RDiv(a, b) == IF IsFinite(a) /\ IsFinite(b) THEN Q(a.n * b.d, a.d * b.n) ELSE NaN
RAdd(a, b) == IF IsFinite(a) /\ IsFinite(b)
              THEN Q(a.n * b.d + b.n * a.d, a.d * b.d) ELSE NaN
RSub(a, b) == RAdd(a, [n |-> -b.n, d |-> b.d])
\* comparisons with NaN are False, as in IEEE 754
RGe(a, b) == IsFinite(a) /\ IsFinite(b) /\ a.n * b.d >= b.n * a.d
RGt(a, b) == IsFinite(a) /\ IsFinite(b) /\ a.n * b.d > b.n * a.d
\* Python's max(a, b) and min(a, b): b if b > a (b < a) else a
PyMax(a, b) == IF RGt(b, a) THEN b ELSE a
PyMin(a, b) == IF RGt(a, b) THEN b ELSE a

\* truncation toward zero of a finite value
TruncZ(a) == IF a.n >= 0 THEN a.n \div a.d ELSE -((-a.n) \div a.d)

\* The image of a float64 with no int64 value (NaN) under a cast to int64 is
\* platform dependent: INT64_MIN on x86-64, 0 elsewhere.  INT64_MIN is kept
\* as a marker (n = -1, d = 0): it is negative and stays out of range under
\* further scaling.
INT64_MIN_MARK == [n |-> -1, d |-> 0]
NanCastOutcomes == {INT64_MIN_MARK, R(0)}

\* numpy 'unsafe' cast of a float64 result into a vector of dtype dt
Cast(a, dt, nc) ==
    IF dt = "float64" THEN a
    ELSE IF IsFinite(a) THEN R(TruncZ(a)) ELSE nc

-----------------------------------------------------------------------------
(* The factor table: columns of StageIFactors.csv *)

Series == {"AGDPN", "ATXPY", "AWAGE", "ASCHCI", "ASCHCL", "ASCHF", "AINTS",
           "ADIVS", "ASCHEI", "ASCHEL", "ACGNS", "ABOOK", "ARETS", "APOPN",
           "ACPIU", "APOPDEP", "ASOCSEC", "ACPIM", "AUCOMP", "APOPSNR",
           "AIPD"}

\* the series _read_blowup divides by APOPN
PerCapitaSeries == {"AGDPN", "ATXPY", "AWAGE", "ASCHCI", "ASCHCL", "ASCHF",
                    "AINTS", "ADIVS", "ASCHEI", "ASCHEL", "ACGNS", "ABOOK"}

\* variant of Divisor: ASOCSEC divided by APOPN like the other aggregates
Divisor_population_only(s) ==
    IF s \in PerCapitaSeries \cup {"ASOCSEC"} THEN "APOPN" ELSE ""

\* the count series a column is divided by ("" when it is not divided)
Divisor(s) ==
    IF s \in PerCapitaSeries THEN "APOPN"
    ELSE IF s = "ASOCSEC" THEN "APOPSNR"
    ELSE ""

\* BF.X = BF.X / BF.APOPN ... BF.ASOCSEC = BF.ASOCSEC / BF.APOPSNR
\* (assignments to the columns of the table object that was passed in)
DivideByPopulation(raw) ==
    [y \in DOMAIN raw |->
        [s \in Series |->
            IF Divisor(s) = "" THEN raw[y][s]
            ELSE RDiv(raw[y][s], raw[y][Divisor(s)])]]

FirstRow(t) == CHOOSE y \in DOMAIN t : \A z \in DOMAIN t : y <= z

\* 1 + t.pct_change(): pct_change is t / t.shift(1) - 1, NaN in the first row
OnePlusPctChange(t) ==
    [y \in DOMAIN t |->
        [s \in Series |->
            IF y = FirstRow(t) THEN NaN
            ELSE RAdd(R(1), RSub(RDiv(t[y][s], t[y - 1][s]), R(1)))]]

\* Records._read_blowup, DataFrame argument: the value bound to self.BF
read_blowup(raw) == OnePlusPctChange(DivideByPopulation(raw))

-----------------------------------------------------------------------------
(* The fields of the store that the model keeps *)

SourceIntNames == {"FLPDYR", "MARS", "FDED", "RECID"}

SourceMoneyNames == {"e00200", "e00300", "e00900", "e01000", "e02000",
                     "e02100", "e02400", "e00100", "p04470", "e00700",
                     "e17500", "e18400", "e18500", "e20800", "e21040",
                     "e62100", "wage_head", "wage_spouse", "s006"}

NAMES == SourceIntNames \cup SourceMoneyNames

ZEROED_NAMES == {"e00200p", "e00200s", "e00900p", "e00900s", "e02100p",
                 "e02100s", "_cmbtp_itemizer", "_cmbtp_standard",
                 "_numextra", "_txpyers", "c00100", "_earned"}

\* _earning_split is an attribute only once _impute_variables has run;
\* until then its vector is empty
Fields == NAMES \cup ZEROED_NAMES \cup {"_earning_split"}

\* tax_dta = tax_dta[tax_dta.recid != 999999]
DropAggregate(rows) == SelectSeq(rows, LAMBDA r : r.RECID # AGGREGATE_RECID)

\* Records._read_data: attributes from the columns, zeroed names
read_data(rows) ==
    LET kept == DropAggregate(rows)
    IN  [f \in Fields |->
            IF f \in NAMES THEN [i \in 1..Len(kept) |-> R(kept[i][f])]
            ELSE IF f \in ZEROED_NAMES THEN [i \in 1..Len(kept) |-> R(0)]
            ELSE << >>]

read_data_dtypes(mdt) ==
    [f \in Fields |->
        IF f \in SourceIntNames THEN "int64"
        ELSE IF f \in SourceMoneyNames THEN mdt
        ELSE "float64"]

-----------------------------------------------------------------------------
(* Records._impute_variables *)

std_2009 == <<5700, 11400, 5700, 8350, 11400, 5700, 950>>
std_aged_2009 == <<1400, 1100>>

\* variant of imputed_cmbtp_itemizer: e18400 enters without its floor at 0
imputed_cmbtp_itemizer_no_floor(e17500, e00100, e18400, e62100, e00700, e04470, e21040, e18500, e20800) ==
    LET medical_limited ==
            PyMax(R(0), RSub(e17500, RMul(PyMax(R(0), e00100), Q(75, 1000))))
        medical_adjustment ==
            PyMin(medical_limited, RMul(Q(25, 1000), PyMax(R(0), e00100)))
    IN  RSub(RSub(RSub(RSub(
            RAdd(RAdd(RAdd(RSub(e62100, medical_adjustment), e00700), e04470),
                 e21040),
            e18400), e00100), e18500), e20800)

\* the module-level vectorized function imputed_cmbtp_itemizer
imputed_cmbtp_itemizer(e17500, e00100, e18400, e62100, e00700, e04470, e21040, e18500, e20800) ==
    LET medical_limited ==
            PyMax(R(0), RSub(e17500, RMul(PyMax(R(0), e00100), Q(75, 1000))))
        medical_adjustment ==
            PyMin(medical_limited, RMul(Q(25, 1000), PyMax(R(0), e00100)))
        state_adjustment == PyMax(R(0), e18400)
    IN  RSub(RSub(RSub(RSub(
            RAdd(RAdd(RAdd(RSub(e62100, medical_adjustment), e00700), e04470),
                 e21040),
            state_adjustment), e00100), e18500), e20800)

\* self._txpyers
txpyers(MARS) == IF MARS = 2 \/ MARS = 3 \/ MARS = 6 THEN R(2) ELSE R(1)

\* variant of numextra: the first branch is taken when e04470 equals the
\* standard deduction as well
numextra_at_least(MARS, FDED, e04470, e02400) ==
    IF FDED = 2 /\ RGe(e04470, R(std_2009[MARS]))
    THEN IF MARS # 2 /\ MARS # 3
         THEN RDiv(RSub(e04470, R(std_2009[MARS])), R(std_aged_2009[1]))
         ELSE RDiv(RSub(e04470, R(std_2009[MARS])), R(std_aged_2009[2]))
    ELSE IF RGt(e02400, R(0)) THEN txpyers(MARS) ELSE R(0)

\* self._numextra
numextra(MARS, FDED, e04470, e02400) ==
    IF FDED = 2 /\ RGt(e04470, R(std_2009[MARS]))
    THEN IF MARS # 2 /\ MARS # 3
         THEN RDiv(RSub(e04470, R(std_2009[MARS])), R(std_aged_2009[1]))
         ELSE RDiv(RSub(e04470, R(std_2009[MARS])), R(std_aged_2009[2]))
    ELSE IF RGt(e02400, R(0)) THEN txpyers(MARS) ELSE R(0)

\* variant of earning_split: ratio 0 for a joint unit whose wages sum to 0
earning_split_zero_sum(MARS, wage_head, wage_spouse) ==
    LET total == IF MARS = 2 THEN RAdd(wage_head, wage_spouse) ELSE R(0)
    IN  IF total # R(0) THEN RDiv(wage_head, total)
        ELSE IF MARS = 2 THEN R(0) ELSE R(1)

\* total and self._earning_split
earning_split(MARS, wage_head, wage_spouse) ==
    LET total == IF MARS = 2 THEN RAdd(wage_head, wage_spouse) ELSE R(0)
    IN  IF total # R(0) THEN RDiv(wage_head, total) ELSE R(1)

impute_variables(c) ==
    LET n == Len(c["MARS"])
        split == [i \in 1..n |->
                    earning_split(c["MARS"][i].n, c["wage_head"][i],
                                  c["wage_spouse"][i])]
        primary(f) == [i \in 1..n |-> RMul(split[i], c[f][i])]
        secondary(f) == [i \in 1..n |-> RMul(RSub(R(1), split[i]), c[f][i])]
    IN  [f \in Fields |->
           CASE f = "_cmbtp_itemizer" ->
                  [i \in 1..n |->
                     imputed_cmbtp_itemizer(
                        c["e17500"][i], c["e00100"][i], c["e18400"][i],
                        c["e62100"][i], c["e00700"][i], c["p04470"][i],
                        c["e21040"][i], c["e18500"][i], c["e20800"][i])]
             [] f = "_cmbtp_standard" ->
                  [i \in 1..n |->
                     RAdd(RSub(c["e62100"][i], c["e00100"][i]),
                          c["e00700"][i])]
             [] f = "_txpyers" -> [i \in 1..n |-> txpyers(c["MARS"][i].n)]
             [] f = "_numextra" ->
                  [i \in 1..n |->
                     numextra(c["MARS"][i].n, c["FDED"][i].n,
                              c["p04470"][i], c["e02400"][i])]
             [] f = "_earning_split" -> split
             [] f = "e00200p" -> primary("e00200")
             [] f = "e00200s" -> secondary("e00200")
             [] f = "e00900p" -> primary("e00900")
             [] f = "e00900s" -> secondary("e00900")
             [] f = "e02100p" -> primary("e02100")
             [] f = "e02100s" -> secondary("e02100")
             [] OTHER -> c[f]]

\* dtypes of the vectors _impute_variables rebinds: _cmbtp_standard is an
\* expression over three source columns and keeps their dtype
impute_dtypes(dt) ==
    [f \in Fields |->
        IF f = "_cmbtp_standard" THEN dt["e62100"]
        ELSE IF f \in ZEROED_NAMES \cup {"_earning_split"} THEN "float64"
        ELSE dt[f]]

-----------------------------------------------------------------------------
(* Records._blowup *)

\* variant of SingleFactor: _txpyers is scaled by ATXPY as well
SingleFactor_with_txpyers ==
    [f \in {"e00200", "e00200p", "e00200s", "e00300", "e00700", "e02100",
            "e02100p", "e02100s", "e02400", "e17500", "e18400", "e18500",
            "e20800", "e21040", "e62100", "_cmbtp_itemizer",
            "_cmbtp_standard", "_txpyers"} |->
        CASE f \in {"e00200", "e00200p", "e00200s"} -> "AWAGE"
          [] f = "e00300" -> "AINTS"
          [] f \in {"e02100", "e02100p", "e02100s"} -> "ASCHF"
          [] f = "e02400" -> "ASOCSEC"
          [] f = "e17500" -> "ACPIM"
          [] OTHER -> "ATXPY"]

\* the statements times_equal(self.<field>, self.BF.<series>[year])
SingleFactor ==
    [f \in {"e00200", "e00200p", "e00200s", "e00300", "e00700", "e02100",
            "e02100p", "e02100s", "e02400", "e17500", "e18400", "e18500",
            "e20800", "e21040", "e62100", "_cmbtp_itemizer",
            "_cmbtp_standard"} |->
        CASE f \in {"e00200", "e00200p", "e00200s"} -> "AWAGE"
          [] f = "e00300" -> "AINTS"
          [] f \in {"e02100", "e02100p", "e02100s"} -> "ASCHF"
          [] f = "e02400" -> "ASOCSEC"
          [] f = "e17500" -> "ACPIM"
          [] OTHER -> "ATXPY"]

\* the statements times_equal(self.<field>, 1.)
ConstantOne == {"e00100", "p04470", "RECID", "s006"}

\* the statements self.<field>[:] = np.where(self.<field> >= 0, ...A, ...B)
SignPair ==
    [f \in {"e00900", "e00900s", "e00900p", "e02000"} |->
        IF f = "e02000" THEN <<"ASCHEI", "ASCHEL">>
        ELSE <<"ASCHCI", "ASCHCL">>]

\* np.where(v >= 0, v * A, v * B)
where_sign(v, A, B) == IF RGe(v, R(0)) THEN RMul(v, A) ELSE RMul(v, B)

\* np.where(self.e01000 >= 0., self.e01000 * ACGNS, self.e01000)
where_e01000(v, A) == IF RGe(v, R(0)) THEN RMul(v, A) ELSE v

\* times_equal(a, b): np.multiply(a, b, out=a, casting='unsafe')
times_equal(a, b, dt, nc) == [i \in DOMAIN a |-> Cast(RMul(a[i], b), dt, nc)]

\* the fields of the store after self._blowup(year), for year in the index
\* of the factor table bf
blowup(c, dt, bf, year, nc) ==
    [f \in Fields |->
        IF f \in DOMAIN SingleFactor
        THEN times_equal(c[f], bf[year][SingleFactor[f]], dt[f], nc)
        ELSE IF f \in ConstantOne
        THEN times_equal(c[f], R(1), dt[f], nc)
        ELSE IF f \in DOMAIN SignPair
        THEN [i \in DOMAIN c[f] |->
                Cast(where_sign(c[f][i], bf[year][SignPair[f][1]],
                                bf[year][SignPair[f][2]]), dt[f], nc)]
        ELSE IF f = "e01000"
        THEN [i \in DOMAIN c[f] |->
                Cast(where_e01000(c[f][i], bf[year]["ACGNS"]), dt[f], nc)]
        ELSE c[f]]

\* self.BF.<series>[year] raises KeyError when year is not in the index
HasFactorRow(bf, year) == year \in DOMAIN bf

\* self.WT["WT" + str(year)] raises KeyError when there is no such column
HasWeightColumn(wt, year) == year \in DOMAIN wt

\* variant of reweight: the column is taken without the division by 100
reweight_unscaled(wt, year) == [i \in DOMAIN wt[year] |-> R(wt[year][i])]

\* self.WT["WT" + str(year)] / 100
reweight(wt, year) == [i \in DOMAIN wt[year] |-> RDiv(R(wt[year][i]), R(100))]

\* variant of next_year: the year is advanced by two
next_year_plus_two(y) == y + 2

\* self._current_year += 1
next_year(y) == y + 1

\* self.FLPDYR += 1
bump_FLPDYR(c) ==
    [c EXCEPT !["FLPDYR"] = [i \in DOMAIN c["FLPDYR"] |->
                                R(c["FLPDYR"][i].n + 1)]]

-----------------------------------------------------------------------------
(* Constructor arguments explored by the model *)

None == [kind |-> "None", v |-> 0]
IntYear(y) == [kind |-> "int", v |-> y]
NotAnInt == [kind |-> "other", v |-> 0]

\* the nine inputs of the itemizer preference measure, worked example
Example9 == [e17500 |-> 1000, e00100 |-> 10000, e18400 |-> 200,
             e62100 |-> 5000, e00700 |-> 100, p04470 |-> 300,
             e21040 |-> 50, e18500 |-> 150, e20800 |-> 80]

\* one row of the input DataFrame: amount a in the single-factor fields,
\* amount s in the sign-dependent fields
MkRow(recid, flpdyr, mars, fded, a, s, wh, ws, nine) ==
    [RECID |-> recid, FLPDYR |-> flpdyr, MARS |-> mars, FDED |-> fded,
     e00200 |-> a, e00300 |-> a, e02100 |-> a, e02400 |-> a,
     e00900 |-> s, e01000 |-> s, e02000 |-> s,
     wage_head |-> wh, wage_spouse |-> ws, s006 |-> 100,
     e17500 |-> nine.e17500, e00100 |-> nine.e00100,
     e18400 |-> nine.e18400, e62100 |-> nine.e62100,
     e00700 |-> nine.e00700, p04470 |-> nine.p04470,
     e21040 |-> nine.e21040, e18500 |-> nine.e18500,
     e20800 |-> nine.e20800]

\* the aggregated record of the 2009 PUF
AggregateRow(flpdyr) ==
    MkRow(AGGREGATE_RECID, flpdyr, 1, 1, 7000, 7000, 0, 0, Example9)

\* raw levels of the series in row FirstYear + k of a hand-built table;
\* tbl = 1 has constant population counts, tbl = 2 growing ones
RawLevel(tbl, s, k) ==
    CASE s = "APOPN" -> IF tbl = 1 THEN 10 ELSE 10 * (k + 1)
      [] s = "APOPSNR" -> IF tbl = 1 THEN 5 ELSE 5 * (k + 2)
      [] s = "AWAGE" -> 20 * (k + 1)
      [] s = "AINTS" -> 10 * (k + 2)
      [] s = "ASCHCI" -> 90 + 10 * k
      [] s = "ASCHCL" -> 110 - 10 * k
      [] s = "ASCHEI" -> 40 + 20 * k
      [] s = "ASCHEL" -> 80 - 10 * k
      [] s = "ACGNS" -> 30 + 10 * k
      [] s = "ASCHF" -> 10 * (k + 3)
      [] s = "ASOCSEC" -> 10 * (k + 4)
      [] s = "ATXPY" -> 10 * (k + 5)
      [] s = "ACPIM" -> 100 + 25 * k
      [] OTHER -> 100 + k

RawTable(tbl) ==
    [y \in TableYears |-> [s \in Series |-> R(RawLevel(tbl, s, y - FirstYear))]]

\* weight tables: column WT<y> holds weight x 100 of every record; the
\* "short" table has no column for the last year of the factor table
WeightYears(kind) ==
    IF kind = "full" THEN TableYears
    ELSE TableYears \ {FirstYear + NumYears - 1}

WeightTable(kind, n) ==
    [y \in WeightYears(kind) |-> [i \in 1..n |-> 100 * i + 25 * (y - 2000)]]

-----------------------------------------------------------------------------
(* Records.extrapolate_2009_puf: the values written into row 2009 *)

Factors2009 ==
    [s \in Series |->
        CASE s = "AWAGE" -> Q(10053, 10000)
          [] s = "ASCHCI" -> Q(10041, 10000)
          [] s = "ASCHCL" -> Q(11629, 10000)
          [] s = "AINTS" -> Q(10357, 10000)
          [] s = "ADIVS" -> Q(10606, 10000)
          [] s = "ASCHEI" -> Q(11089, 10000)
          [] s = "ASCHEL" -> Q(12953, 10000)
          [] s = "ACGNS" -> Q(11781, 10000)
          [] s = "ARETS" -> Q(10026, 10000)
          [] s = "ASOCSEC" -> Q(9941, 10000)
          [] s = "AUCOMP" -> Q(10034, 10000)
          [] OTHER -> R(1)]

-----------------------------------------------------------------------------
(* The state machine *)

\* variant of should_impute: any year from the base year on
should_impute_from_base_year(cy) == cy >= PUF_YEAR

\* if self._current_year == Records.PUF_YEAR
should_impute(cy) == cy = PUF_YEAR

\* the columns of the input DataFrame
Columns(rows) == DOMAIN rows[1]

\* _read_data: tax_dta[varname] raises KeyError for a NAMES column that the
\* input does not have
read_data_error(rows) ==
    IF \E f \in NAMES : f \notin Columns(rows) THEN "KeyError" ELSE "none"

\* _read_blowup and _read_weights on an argument of the given kind:
\* "DataFrame"; "file", a name that resolves to a CSV file; "missing", a
\* name found neither on the filesystem nor in the bundled resources; "other",
\* neither a string nor a DataFrame.  For "missing" the IOError is caught,
\* ValueError(msg) is built but not raised, and the statement after the
\* try block reads the local that was never bound.
read_table_error(kind) ==
    CASE kind = "missing" -> "UnboundLocalError"
      [] kind = "other" -> "ValueError"
      [] OTHER -> "none"

\* start_year is neither None nor an integer
start_year_error(sy) == IF sy.kind = "other" THEN "ValueError" ELSE "none"

\* the exception the constructor raises ("none" if it returns): the first
\* one met by _read_data, _read_blowup, _read_weights and the start_year test
init_error(rows, src, sy) ==
    IF read_data_error(rows) # "none" THEN read_data_error(rows)
    ELSE IF read_table_error(src.blowup_factors) # "none"
    THEN read_table_error(src.blowup_factors)
    ELSE IF read_table_error(src.weights) # "none"
    THEN read_table_error(src.weights)
    ELSE start_year_error(sy)

\* the caller's factor table after _read_blowup: the per-capita divisions
\* are assignments to the columns of the object that was passed in
caller_table_after(raw) == DivideByPopulation(raw)

\* Records.__init__(data, blowup_factors, weights, start_year)
Records_init ==
    /\ pc = "new"
    /\ LET c0 == read_data(data)
           dt0 == read_data_dtypes(money_dtype)
           cy == IF start_year.kind = "None" THEN c0["FLPDYR"][1].n
                 ELSE start_year.v
           e == init_error(data, sources, start_year)
           blowup_read == /\ read_data_error(data) = "none"
                          /\ read_table_error(sources.blowup_factors) = "none"
           weights_read == /\ blowup_read
                           /\ read_table_error(sources.weights) = "none"
       IN  /\ err' = e
           /\ blowup_factors' =
                IF blowup_read /\ sources.blowup_factors = "DataFrame"
                THEN caller_table_after(blowup_factors)
                ELSE blowup_factors
           /\ BF' = IF blowup_read THEN read_blowup(blowup_factors) ELSE BF
           /\ WT' = IF weights_read THEN weights ELSE WT
           /\ IF read_data_error(data) # "none"
              THEN /\ pc' = "failed"
                   /\ UNCHANGED <<cols, dtypes, dim, current_year, n_impute>>
              ELSE /\ dim' = Len(DropAggregate(data))
                   /\ IF e # "none"
                      THEN /\ pc' = "failed"
                           /\ cols' = c0
                           /\ dtypes' = dt0
                           /\ UNCHANGED <<current_year, n_impute>>
                      ELSE /\ pc' = "ready"
                           /\ current_year' = cy
                           /\ IF should_impute(cy)
                              THEN /\ cols' = impute_variables(c0)
                                   /\ dtypes' = impute_dtypes(dt0)
                                   /\ n_impute' = n_impute + 1
                              ELSE /\ cols' = c0
                                   /\ dtypes' = dt0
                                   /\ UNCHANGED n_impute
    /\ op' = "__init__"
    /\ UNCHANGED <<data, money_dtype, weights, start_year, sources,
                   n_increment, n_extrapolate, n_write, written>>

\* Records.increment_year()
increment_year ==
    /\ pc = "ready"
    /\ n_increment < MaxIncrement
    /\ \E nc \in NanCastOutcomes :
         LET y == next_year(current_year)
             c1 == bump_FLPDYR(cols)
             c2 == blowup(c1, dtypes, BF, y, nc)
         IN  /\ current_year' = y
             /\ IF ~HasFactorRow(BF, y)
                THEN /\ cols' = c1
                     /\ err' = "KeyError"
                     /\ UNCHANGED dtypes
                ELSE IF ~HasWeightColumn(WT, y)
                THEN /\ cols' = c2
                     /\ err' = "KeyError"
                     /\ UNCHANGED dtypes
                ELSE /\ cols' = [c2 EXCEPT !["s006"] = reweight(WT, y)]
                     /\ dtypes' = [dtypes EXCEPT !["s006"] = "float64"]
                     /\ err' = "none"
    /\ n_increment' = n_increment + 1
    /\ op' = "increment_year"
    /\ UNCHANGED <<data, money_dtype, blowup_factors, weights, start_year,
                   sources, pc, dim, BF, WT, n_impute, n_extrapolate, n_write,
                   written>>

\* variant of override_row: the values are written into every row
override_every_row(bf, year) == [y \in DOMAIN bf |-> Factors2009]

\* self.BF.<series>[year] = <value>, for the 21 series
override_row(bf, year) == [bf EXCEPT ![year] = Factors2009]

\* Records.extrapolate_2009_puf(); the method is the one-time base-year
\* adjustment and is called at most once on a store.  The assignments
\* self.BF.<series>[2009] = ... are chained assignments: they reach the
\* table (write_through) or a temporary copy of the column, depending on
\* the pandas build.
extrapolate_2009_puf ==
    /\ pc = "ready"
    /\ n_extrapolate = 0
    /\ \E nc \in NanCastOutcomes, write_through \in BOOLEAN :
         LET year == PUF_YEAR
             bf1 == IF write_through /\ HasFactorRow(BF, year)
                    THEN override_row(BF, year)
                    ELSE BF
             c2 == blowup(cols, dtypes, bf1, year, nc)
         IN  /\ BF' = bf1
             /\ IF ~HasFactorRow(bf1, year)
                THEN /\ err' = "KeyError"
                     /\ UNCHANGED <<cols, dtypes>>
                ELSE IF ~HasWeightColumn(WT, year)
                THEN /\ cols' = c2
                     /\ err' = "KeyError"
                     /\ UNCHANGED dtypes
                ELSE /\ cols' = [c2 EXCEPT !["s006"] = reweight(WT, year)]
                     /\ dtypes' = [dtypes EXCEPT !["s006"] = "float64"]
                     /\ err' = "none"
    /\ n_extrapolate' = n_extrapolate + 1
    /\ op' = "extrapolate_2009_puf"
    /\ UNCHANGED <<data, money_dtype, blowup_factors, weights, start_year,
                   sources, pc, dim, WT, current_year, n_increment, n_impute,
                   n_write, written>>

\* direct write access to a field vector: recs.<field>[i] = v
WrittenValue == [s006 |-> 20, e00900 |-> -4]

write_field ==
    /\ pc = "ready"
    /\ n_write < MaxWrite
    /\ \E f \in DOMAIN WrittenValue :
         /\ Len(cols[f]) >= 1
         /\ cols' = [cols EXCEPT ![f][1] = R(WrittenValue[f])]
         /\ written' = written \cup {f}
    /\ n_write' = n_write + 1
    /\ op' = "write_field"
    /\ err' = "none"
    /\ UNCHANGED <<data, money_dtype, blowup_factors, weights, start_year,
                   sources, pc, dtypes, dim, BF, WT, current_year, n_increment,
                   n_impute, n_extrapolate>>

Next ==
    \/ Records_init
    \/ increment_year
    \/ extrapolate_2009_puf
    \/ write_field

\* the state before the constructor runs, for given constructor arguments
UnconstructedFrom(d, mdt, raw, wt, sy, src) ==
    /\ data = d
    /\ money_dtype = mdt
    /\ blowup_factors = raw
    /\ weights = wt
    /\ start_year = sy
    /\ sources = src
    /\ pc = "new"
    /\ cols = [f \in Fields |-> << >>]
    /\ dtypes = read_data_dtypes(mdt)
    /\ dim = 0
    /\ BF = << >>
    /\ WT = << >>
    /\ current_year = 0
    /\ err = "none"
    /\ op = "none"
    /\ n_increment = 0
    /\ n_impute = 0
    /\ n_extrapolate = 0
    /\ n_write = 0
    /\ written = {}

\* both tables passed as DataFrames
FrameSources == [blowup_factors |-> "DataFrame", weights |-> "DataFrame"]

\* DataFrame arguments, the weight table having one row per unit kept
Unconstructed(d, mdt, raw, wkind, sy) ==
    UnconstructedFrom(d, mdt, raw, WeightTable(wkind, Len(DropAggregate(d))),
                      sy, FrameSources)

Dtypes == {"int64", "float64"}

\* input DataFrames: one unit, or one unit followed by a second unit and
\* the aggregated record
DataFrames ==
    { IF two
      THEN << MkRow(1, fl, 2, 2, 5, s, 600, 400, Example9),
              MkRow(2, fl, 1, 1, 1000, -s, 500, 0, Example9),
              AggregateRow(fl) >>
      ELSE << MkRow(1, fl, 2, 2, 5, s, 600, 400, Example9) >>
      : two \in BOOLEAN, fl \in {PUF_YEAR, PUF_YEAR + 1}, s \in {-5, 0, 5} }

StartYears == {None, IntYear(PUF_YEAR - 1), IntYear(PUF_YEAR), NotAnInt}

Init ==
    \E d \in DataFrames, mdt \in Dtypes, tbl \in {1, 2},
       wkind \in {"full", "short"}, sy \in StartYears :
        Unconstructed(d, mdt, RawTable(tbl), wkind, sy)

Spec == Init /\ [][Next]_vars

-----------------------------------------------------------------------------
(* Specification for the constructor's arguments: an input without one of  *)
(* the NAMES columns, tables named by files, a weight table with one row   *)
(* per input row, and a start year before the factor table's first year.   *)

\* a DataFrame without the column f
WithoutColumn(rows, f) ==
    [i \in 1..Len(rows) |-> [g \in (DOMAIN rows[i]) \ {f} |-> rows[i][g]]]

OneUnit == << MkRow(1, PUF_YEAR, 2, 2, 5, 5, 600, 400, Example9) >>

TwoUnitsAndAggregate ==
    << MkRow(1, PUF_YEAR, 2, 2, 5, 5, 600, 400, Example9),
       MkRow(2, PUF_YEAR, 1, 1, 1000, -5, 500, 0, Example9),
       AggregateRow(PUF_YEAR) >>

ArgFrames == {OneUnit, TwoUnitsAndAggregate, WithoutColumn(OneUnit, "e00300")}

SourceKinds == {"DataFrame", "file", "missing", "other"}

InitArgs ==
    \E d \in ArgFrames, mdt \in Dtypes, fk \in SourceKinds,
       wk \in SourceKinds, per_input_row \in BOOLEAN,
       sy \in {None, IntYear(FirstYear - 1)} :
        UnconstructedFrom(d, mdt, RawTable(2),
                          WeightTable("full", IF per_input_row THEN Len(d)
                                              ELSE Len(DropAggregate(d))),
                          sy, [blowup_factors |-> fk, weights |-> wk])

SpecArgs == InitArgs /\ [][Next]_vars

-----------------------------------------------------------------------------
(* Specification for the imputed counts: the constructor arguments range   *)
(* over the six filing statuses, the itemizing flag, deductions below, at  *)
(* and above the 2009 standard deductions, and social-security income.     *)

Deductions == {300, 5700, 7100, 12500}

InitAged ==
    \E mars \in 1..6, fded \in {1, 2}, ded \in Deductions,
       socsec \in {0, 1000}, mdt \in Dtypes :
        Unconstructed(<< MkRow(1, PUF_YEAR, mars, fded, socsec, 5, 600, 400,
                               [Example9 EXCEPT !.p04470 = ded]) >>,
                      mdt, RawTable(1), "full", None)

SpecAged == InitAged /\ [][Next]_vars

-----------------------------------------------------------------------------
(* Specification for the imputation formulas: the constructor arguments    *)
(* range over filing statuses, wage pairs and the inputs of the itemizer   *)
(* preference measure.                                                     *)

WagePairs == {<<600, 400>>, <<0, 0>>, <<0, 400>>, <<500, -500>>}

NineInputs ==
    { [Example9 EXCEPT !.e17500 = a, !.e00100 = b, !.e18400 = c] :
        a \in {0, 900, 1000, 2000}, b \in {-10000, 0, 10000},
        c \in {-200, 200} }

InitImpute ==
    \E mars \in {1, 2, 3}, w \in WagePairs, nine \in NineInputs,
       mdt \in Dtypes :
        Unconstructed(<< MkRow(1, PUF_YEAR, mars, 2, 1000, -5, w[1], w[2],
                               nine) >>,
                      mdt, RawTable(1), "full", None)

SpecImpute == InitImpute /\ [][Next]_vars

-----------------------------------------------------------------------------
(* Specification for the normalization of the factor table: the raw table  *)
(* ranges over hand-built tables whose aggregate levels and population     *)
(* counts follow different patterns over the years.                        *)

Pattern(id, k) ==
    CASE id = "flat" -> 10
      [] id = "growing" -> 10 * (k + 1)
      [] id = "alternating" -> 10 + 5 * (k % 2)
      [] id = "declining" -> 60 - 5 * k

PatternTable(lev, pop, snr) ==
    [y \in TableYears |->
        [s \in Series |->
            LET k == y - FirstYear
            IN  CASE s = "APOPN" -> R(Pattern(pop, k))
                  [] s = "APOPSNR" -> R(Pattern(snr, k))
                  [] OTHER -> R(RawLevel(1, s, k) * Pattern(lev, k))]]

InitNorm ==
    \E lev \in {"flat", "growing", "alternating"},
       pop \in {"flat", "growing", "alternating", "declining"},
       snr \in {"flat", "growing", "alternating", "declining"},
       mdt \in Dtypes :
        Unconstructed(<< MkRow(1, PUF_YEAR, 2, 2, 5, -5, 600, 400, Example9) >>,
                      mdt, PatternTable(lev, pop, snr), "full", None)

SpecNorm == InitNorm /\ [][Next]_vars

-----------------------------------------------------------------------------
(* Properties *)

\* a step of increment_year, and one that returned without raising
IncrementStep == n_increment' = n_increment + 1
SuccessfulIncrementStep == IncrementStep /\ err' = "none"

\* the state right after a constructor call in which imputation ran
JustImputed == pc = "ready" /\ op = "__init__" /\ n_impute = 1

\* C1: an increment_year call that raises KeyError (no factor row or no
\* weight column for the new year) leaves every field of the store,
\* FLPDYR and s006 included, and current_year as they were before the call.
C1_FailedAdvanceIsAtomic ==
    [][(IncrementStep /\ err' = "KeyError")
          => (cols' = cols /\ current_year' = current_year)]_vars

\* C2: on a constructed store current_year changes only in increment_year
\* steps, by exactly one per call (also for a call that raises);
\* extrapolate_2009_puf and field writes leave it unchanged.
C2_YearAdvancesByOnePerCall ==
    [][pc = "ready"
          => current_year' = current_year + (n_increment' - n_increment)]_vars

C2_Witness ==
    /\ pc = "ready"
    /\ n_increment = 2
    /\ n_extrapolate = 1
    /\ n_write = 1
    /\ current_year = PUF_YEAR + 2

\* C3: a successful increment_year multiplies every element of every
\* single-factor field by the normalized factor of its series in the row of
\* the post-increment year.
C3_SingleFactorFieldsScaled ==
    [][SuccessfulIncrementStep
          => \A f \in DOMAIN SingleFactor : \A i \in DOMAIN cols[f] :
                cols'[f][i] =
                    RMul(cols[f][i], BF[current_year'][SingleFactor[f]])]_vars

\* C4: after a successful increment_year to year Y, s006 of every record
\* is column WT<Y> of that record divided by 100, whatever s006 held before.
C4_WeightOverwritten ==
    (pc = "ready" /\ op = "increment_year" /\ err = "none")
        => /\ DOMAIN cols["s006"] = DOMAIN WT[current_year]
           /\ \A i \in DOMAIN cols["s006"] :
                cols["s006"][i] = Q(WT[current_year][i], 100)

C4_Witness ==
    /\ pc = "ready"
    /\ op = "increment_year"
    /\ err = "none"
    /\ "s006" \in written
    /\ n_extrapolate = 0
    /\ cols["s006"][1] = Q(100 + 25 * (current_year - 2000), 100)
    /\ cols["s006"][1] # R(WrittenValue["s006"])

\* C5: a successful increment_year multiplies every element of e00900,
\* e00900p, e00900s (pair ASCHCI/ASCHCL) and e02000 (pair ASCHEI/ASCHEL)
\* by the first factor of the year when the element was >= 0 before the
\* call and by the second when it was negative.
C5_SignDependentFieldsScaled ==
    [][SuccessfulIncrementStep
          => \A f \in {"e00900", "e00900p", "e00900s", "e02000"} :
             \A i \in DOMAIN cols[f] :
                LET A == IF f = "e02000" THEN "ASCHEI" ELSE "ASCHCI"
                    B == IF f = "e02000" THEN "ASCHEL" ELSE "ASCHCL"
                IN  cols'[f][i] =
                      IF RGe(cols[f][i], R(0))
                      THEN RMul(cols[f][i], BF[current_year'][A])
                      ELSE RMul(cols[f][i], BF[current_year'][B])]_vars

\* C6: a successful increment_year multiplies an element of e01000 by the
\* year's ACGNS factor when it is >= 0 and leaves it unchanged when it is
\* negative.
C6_CapitalGainsAsymmetric ==
    [][SuccessfulIncrementStep
          => \A i \in DOMAIN cols["e01000"] :
                cols'["e01000"][i] =
                    IF RGe(cols["e01000"][i], R(0))
                    THEN RMul(cols["e01000"][i], BF[current_year']["ACGNS"])
                    ELSE cols["e01000"][i]]_vars

\* the native year of the loaded sample: FLPDYR of the units of the input
SampleYearIs(y) ==
    \A i \in 1..Len(DropAggregate(data)) : DropAggregate(data)[i].FLPDYR = y

\* the year the constructor sets: start_year, or FLPDYR of the first unit
ConstructionYear ==
    IF start_year.kind = "None" THEN DropAggregate(data)[1].FLPDYR
    ELSE start_year.v

\* C7 as stated: on a constructed store imputation has run exactly once
\* when the native year FLPDYR of the loaded sample is 2009 and not at all
\* otherwise.
C7_ImputedIffSampleYear2009 ==
    pc = "ready" => n_impute = (IF SampleYearIs(PUF_YEAR) THEN 1 ELSE 0)

\* C7 amended: on a constructed store imputation has run exactly once when
\* the year set by the constructor (start_year if given, else FLPDYR of the
\* first unit) is 2009 and not at all otherwise, whatever operations
\* followed; it has not run when the constructor raised.
C7_ImputedIffConstructionYear2009 ==
    /\ pc = "ready" => n_impute = (IF ConstructionYear = PUF_YEAR THEN 1 ELSE 0)
    /\ pc # "ready" => n_impute = 0

C7_Witness ==
    /\ pc = "ready"
    /\ n_impute = 1
    /\ ~SampleYearIs(PUF_YEAR)
    /\ n_increment >= 1
    /\ n_extrapolate = 1

\* the split of a joint field f into fp and fs by the ratio r
SplitBy(r, f, fp, fs, i) ==
    /\ cols[fp][i] = RMul(r, cols[f][i])
    /\ cols[fs][i] = RMul(RSub(R(1), r), cols[f][i])

SplitAllBy(r, i) ==
    /\ cols["_earning_split"][i] = r
    /\ SplitBy(r, "e00200", "e00200p", "e00200s", i)
    /\ SplitBy(r, "e00900", "e00900p", "e00900s", i)
    /\ SplitBy(r, "e02100", "e02100p", "e02100s", i)

\* C8 as stated: after imputation the split ratio of a record is
\* wage_head / (wage_head + wage_spouse) for a joint unit (MARS 2), 0 when
\* that sum is zero, 1 for a non-joint unit, and the three joint fields are
\* split by it.
C8_SplitRatioZeroOnZeroSum ==
    JustImputed
        => \A i \in 1..dim :
             LET wh == cols["wage_head"][i]
                 ws == cols["wage_spouse"][i]
                 r == IF cols["MARS"][i] # R(2) THEN R(1)
                      ELSE IF RAdd(wh, ws) = R(0) THEN R(0)
                      ELSE RDiv(wh, RAdd(wh, ws))
             IN  SplitAllBy(r, i)

\* C8 amended: as stated, but the ratio is 1 (not 0) for a joint unit whose
\* wage sum is zero.
C8_SplitRatioOneOnZeroSum ==
    JustImputed
        => \A i \in 1..dim :
             LET wh == cols["wage_head"][i]
                 ws == cols["wage_spouse"][i]
                 r == IF cols["MARS"][i] # R(2) THEN R(1)
                      ELSE IF RAdd(wh, ws) = R(0) THEN R(1)
                      ELSE RDiv(wh, RAdd(wh, ws))
             IN  SplitAllBy(r, i)

C8_Witness ==
    /\ JustImputed
    /\ cols["MARS"][1] = R(2)
    /\ cols["wage_head"][1] = R(600)
    /\ cols["wage_spouse"][1] = R(400)
    /\ cols["e00200"][1] = R(1000)
    /\ cols["e00200p"][1] = R(600)
    /\ cols["e00200s"][1] = R(400)
    /\ cols["e00900p"][1] = R(-3)

\* C9: after imputation _cmbtp_itemizer of every record is
\* e62100 - med + e00700 + p04470 + e21040 - max(0, e18400) - e00100
\* - e18500 - e20800 with
\* med = min(max(0, e17500 - 0.075 max(0, e00100)), 0.025 max(0, e00100)).
C9_CmbtpItemizerFormula ==
    JustImputed
        => \A i \in 1..dim :
             LET pos_income == IF RGe(cols["e00100"][i], R(0))
                               THEN cols["e00100"][i] ELSE R(0)
                 excess == RSub(cols["e17500"][i], RMul(Q(3, 40), pos_income))
                 floor_excess == IF RGe(excess, R(0)) THEN excess ELSE R(0)
                 cap == RMul(Q(1, 40), pos_income)
                 med == IF RGe(cap, floor_excess) THEN floor_excess ELSE cap
                 taxes == IF RGe(cols["e18400"][i], R(0))
                          THEN cols["e18400"][i] ELSE R(0)
                 plus == RAdd(RAdd(RAdd(cols["e62100"][i], cols["e00700"][i]),
                                   cols["p04470"][i]), cols["e21040"][i])
                 minus == RAdd(RAdd(RAdd(RAdd(med, taxes), cols["e00100"][i]),
                                    cols["e18500"][i]), cols["e20800"][i])
             IN  cols["_cmbtp_itemizer"][i] = RSub(plus, minus)

C9_Witness ==
    /\ JustImputed
    /\ cols["e17500"][1] = R(1000)
    /\ cols["e00100"][1] = R(10000)
    /\ cols["e18400"][1] = R(200)
    /\ cols["e62100"][1] = R(5000)
    /\ cols["e00700"][1] = R(100)
    /\ cols["p04470"][1] = R(300)
    /\ cols["e21040"][1] = R(50)
    /\ cols["e18500"][1] = R(150)
    /\ cols["e20800"][1] = R(80)
    /\ cols["_cmbtp_itemizer"][1] = R(-5230)

\* C10: the constructor's normalization of the raw factor table stores, for
\* every year y but the first and every aggregate series, the multiplier
\* (raw[y] / pop[y]) / (raw[y-1] / pop[y-1]), pop being APOPN, or APOPSNR
\* for ASOCSEC.
C10_NormalizedRatio ==
    [][(pc = "new" /\ pc' # "new")
          => \A y \in DOMAIN blowup_factors : \A s \in PerCapitaSeries \cup {"ASOCSEC"} :
                LET raw == blowup_factors
                    pop == IF s = "ASOCSEC" THEN "APOPSNR" ELSE "APOPN"
                IN  (y - 1) \in DOMAIN raw
                       => BF'[y][s] = RDiv(RDiv(raw[y][s], raw[y][pop]),
                                           RDiv(raw[y - 1][s], raw[y - 1][pop]))]_vars

C10_Witness ==
    /\ pc = "ready"
    /\ op = "__init__"
    /\ blowup_factors[PUF_YEAR]["APOPN"] # blowup_factors[PUF_YEAR - 1]["APOPN"]
    /\ blowup_factors[PUF_YEAR]["APOPSNR"] # blowup_factors[PUF_YEAR]["APOPN"]
    /\ blowup_factors[PUF_YEAR]["APOPSNR"] = blowup_factors[PUF_YEAR - 1]["APOPSNR"]
    /\ BF[PUF_YEAR]["AWAGE"] = R(1)
    /\ BF[PUF_YEAR]["ASOCSEC"] = Q(5, 4)

-----------------------------------------------------------------------------
\* C11: after load every declared field is a vector of length N; a NAMES
\* column that the input data lacks does not make the load fail, the field
\* is an all-zero vector of length N.  (The load raises KeyError instead.)
C11_MissingColumnReadAsZero ==
    (pc # "new" /\ NAMES \ Columns(data) # {})
        => /\ pc = "ready"
           /\ \A f \in NAMES \ Columns(data) :
                cols[f] = [i \in 1..Len(DropAggregate(data)) |-> R(0)]

-----------------------------------------------------------------------------
\* the constructor has reached the loader of a table whose file is missing
MissingFileReached ==
    /\ pc # "new"
    /\ read_data_error(data) = "none"
    /\ \/ sources.blowup_factors = "missing"
       \/ /\ sources.blowup_factors \in {"DataFrame", "file"}
          /\ sources.weights = "missing"

\* C12: when the factor or weight file named by a string is found neither
\* on the filesystem nor in the bundled resources, the constructor fails
\* with ValueError raised by the loader and produces no Records object.
\* (The loader builds the ValueError without raising it; the exception that
\* ends the constructor is UnboundLocalError.)
C12_MissingFileRaisesValueError ==
    MissingFileReached => (pc = "failed" /\ err = "ValueError")

-----------------------------------------------------------------------------
\* C13 as stated: no operation on a constructed store (increment_year,
\* extrapolate_2009_puf, field access) changes any entry of the store's
\* factor table or weight table.
C13_TablesNeverChange ==
    [][pc = "ready" => (BF' = BF /\ WT' = WT)]_vars

\* C13, amended: on a constructed store no operation changes the weight
\* table; increment_year and field access do not change the factor table;
\* extrapolate_2009_puf changes at most the factor table's row of year 2009,
\* which it replaces by the fixed 2009 values, and no other row.
C13_OnlyRow2009Overridden ==
    [][pc = "ready" =>
         /\ WT' = WT
         /\ DOMAIN BF' = DOMAIN BF
         /\ \A y \in DOMAIN BF : y # PUF_YEAR => BF'[y] = BF[y]
         /\ BF' # BF =>
              /\ op' = "extrapolate_2009_puf"
              /\ BF'[PUF_YEAR] = Factors2009]_vars

\* extrapolate_2009_puf has replaced row 2009 of a table read from the input
C13_Witness ==
    /\ op = "extrapolate_2009_puf"
    /\ err = "none"
    /\ BF[PUF_YEAR] = Factors2009
    /\ BF[PUF_YEAR + 1] = read_blowup(RawTable(2))[PUF_YEAR + 1]
    /\ WT = weights

-----------------------------------------------------------------------------
\* C14: in every state reached by the constructor followed by increment_year
\* and extrapolate_2009_puf calls, every declared field vector, s006
\* included, has length N, the number of input rows whose recid is not
\* 999999.  (s006 takes the length of the weight table's column.)
C14_AllVectorsLengthN ==
    (pc = "ready" /\ n_write = 0)
        => \A f \in NAMES \cup ZEROED_NAMES :
             DOMAIN cols[f] = 1..Len(DropAggregate(data))

-----------------------------------------------------------------------------
\* the declared fields whose name starts with "c" or with an underscore
ComputedFields ==
    {"_cmbtp_itemizer", "_cmbtp_standard", "_numextra", "_txpyers",
     "c00100", "_earned"}

-----------------------------------------------------------------------------
\* C16: for every start year the constructor accepts, no increment_year
\* call that returns normally applies the factor table's first row, whose
\* entries are NaN.  (A start year one before the table's first year is
\* accepted, and the first call then multiplies by that row.)
C16_FirstRowNeverApplied ==
    [][SuccessfulIncrementStep =>
         /\ current_year' # FirstRow(BF)
         /\ \A s \in Series : IsFinite(BF[current_year'][s])]_vars

-----------------------------------------------------------------------------
\* C17: after imputation, for every record with MARS in 1..6, _txpyers is 2
\* for the joint-like statuses (MARS 2, 3, 6) and 1 otherwise; _numextra is
\* (e04470 - 2009 standard deduction of that MARS) / aged constant, the
\* constant being 1100 for MARS 2 and 3 and 1400 for the other statuses,
\* when FDED = 2 and e04470 exceeds that standard deduction; otherwise
\* _txpyers when e02400 > 0; otherwise 0.  The constructor does not fail.
C17_TaxpayerAndAgedCounts ==
    (pc # "new" /\ op = "__init__" /\ n_write = 0) =>
        /\ pc = "ready"
        /\ err = "none"
        /\ n_impute = 1
        /\ \A i \in 1..dim :
             LET m == cols["MARS"][i].n
                 std == CASE m \in {1, 3, 6} -> 5700
                          [] m \in {2, 5} -> 11400
                          [] m = 4 -> 8350
                 aged == IF m \in {2, 3} THEN 1100 ELSE 1400
                 n == IF m \in {2, 3, 6} THEN 2 ELSE 1
                 ded == cols["p04470"][i].n
             IN  m \in 1..6 =>
                   /\ cols["_txpyers"][i] = R(n)
                   /\ cols["_numextra"][i] =
                        IF cols["FDED"][i] = R(2) /\ ded > std
                        THEN Q(ded - std, aged)
                        ELSE IF cols["e02400"][i].n > 0 THEN R(n) ELSE R(0)

\* a head-of-household-like unit (MARS 4) not itemizing, with a deduction of
\* 12500 against the standard 8350: _numextra = 4150 / 1400
C17_Witness ==
    /\ JustImputed
    /\ cols["MARS"][1] = R(4)
    /\ cols["FDED"][1] = R(2)
    /\ cols["p04470"][1] = R(12500)
    /\ cols["_numextra"][1] = Q(83, 28)
    /\ cols["_txpyers"][1] = R(1)

-----------------------------------------------------------------------------
\* C18: a constructor call given the raw factor table as a DataFrame leaves
\* the caller's table unchanged, so a second store constructed from the same
\* table afterwards holds the same normalized multipliers as the first.
\* (The per-capita divisions are done in the caller's table.)
C18_CallerTableUnchanged ==
    [][(pc = "new" /\ pc' = "ready" /\ sources.blowup_factors = "DataFrame")
         => /\ blowup_factors' = blowup_factors
            /\ read_blowup(blowup_factors') = BF']_vars

-----------------------------------------------------------------------------
\* the split components of the joint field f of record i sum to the field
SumsToJoint(f, fp, fs, i) == RAdd(cols[fp][i], cols[fs][i]) = cols[f][i]

\* C19: in a store where imputation ran, for every record with wage_head
\* and wage_spouse non-negative, after any number of increment_year calls
\* e00200p + e00200s = e00200, e02100p + e02100s = e02100 and
\* e00900p + e00900s = e00900.  (An int64 joint column is truncated at every
\* call while its float64 components are not.)
C19_SplitsSumToJoint ==
    (pc = "ready" /\ n_impute = 1 /\ n_write = 0 /\ n_extrapolate = 0) =>
        \A i \in 1..dim :
            (RGe(cols["wage_head"][i], R(0))
                /\ RGe(cols["wage_spouse"][i], R(0)))
            => /\ SumsToJoint("e00200", "e00200p", "e00200s", i)
               /\ SumsToJoint("e02100", "e02100p", "e02100s", i)
               /\ SumsToJoint("e00900", "e00900p", "e00900s", i)

====
